---- MODULE Spec2Model ----
(***************************************************************************)
(* Model of src/main.py: the in-memory task list, the ConnectionManager    *)
(* and the three handlers (GET /tasks, POST /tasks, /ws).  Handlers are    *)
(* asyncio coroutines: they interleave only at the awaits (accept,         *)
(* receive_text, send_text); the code between two awaits is one step.      *)
(* Text is modelled as a sequence of one-character strings so that         *)
(* startswith, slicing, strip, str and the f-string rendering are          *)
(* computed and not assumed.                                               *)
(***************************************************************************)
EXTENDS Integers, Sequences, FiniteSets, TLC

\* ------------------------------------------------------------------ bounds
\* /ws connections and REST requests that may arrive
NumWebSockets == 2
NumRequests == 1
\* inputs handled in one run: handshakes, frames, disconnects, REST requests
MaxEvents == 4
\* sends that may raise WebSocketDisconnect in one run
MaxSendFailures == 1

WebSockets == 1..NumWebSockets
Requests == (NumWebSockets + 1)..(NumWebSockets + NumRequests)
Handlers == WebSockets \cup Requests

\* ------------------------------------------------------------ text values
ADD_TASK == <<"a","d","d","_","t","a","s","k",":">>
NEW_TASK == <<"n","e","w","_","t","a","s","k",":">>
MESSAGE == <<"m","e","s","s","a","g","e",":">>
CLIENT_DISCONNECTED ==
  <<"A"," ","c","l","i","e","n","t"," ","d","i","s","c","o","n","n","e","c","t","e","d">>
KEY_ID == <<"i","d">>
KEY_CONTENT == <<"c","o","n","t","e","n","t">>
Whitespace == {" ", "\t", "\n", "\r"}
Digits == <<"0","1","2","3","4","5","6","7","8","9">>

\* frames a client may send on /ws
Frames ==
  { ADD_TASK \o <<" ","x"," ">>,
    ADD_TASK \o <<" ","\t">>,
    ADD_TASK,
    <<"h","i"," ">> }

\* request bodies of POST /tasks: any mapping, keys in insertion order
Bodies ==
  { <<>>,
    << <<KEY_ID, <<"0">>>>, <<KEY_CONTENT, <<"y">>>> >> }

NoResponse == <<>>
STATUS_TASK_ADDED == << <<"status", "task_added">> >>

\* --------------------------------------------------------- pure functions
startswith(s, prefix) ==
  /\ Len(s) >= Len(prefix)
  /\ SubSeq(s, 1, Len(prefix)) = prefix

RECURSIVE lstrip(_)
lstrip(s) ==
  IF s = <<>> THEN <<>>
  ELSE IF s[1] \in Whitespace THEN lstrip(Tail(s)) ELSE s

RECURSIVE rstrip(_)
rstrip(s) ==
  IF s = <<>> THEN <<>>
  ELSE IF s[Len(s)] \in Whitespace THEN rstrip(SubSeq(s, 1, Len(s) - 1)) ELSE s

strip_identity(s) == s

strip(s) == rstrip(lstrip(s))

RECURSIVE str(_)
str(n) ==
  IF n < 10 THEN <<Digits[n + 1]>>
  ELSE str(n \div 10) \o <<Digits[(n % 10) + 1]>>

repr_str(s) == <<"'">> \o s \o <<"'">>

RECURSIVE repr_items(_)
repr_items(d) ==
  IF d = <<>> THEN <<>>
  ELSE repr_str(d[1][1]) \o <<":"," ">> \o repr_str(d[1][2])
       \o (IF Len(d) > 1 THEN <<","," ">> \o repr_items(Tail(d)) ELSE <<>>)

repr_dict(d) == <<"{">> \o repr_items(d) \o <<"}">>

new_task_message(task) == NEW_TASK \o repr_dict(task)

message_text_stripped(data) == MESSAGE \o strip(data)

\* f"message:{data}"
message_text(data) == MESSAGE \o data

tasks_append_front(store, task) == <<task>> \o store

\* tasks.append(task)
tasks_append(store, task) == Append(store, task)

Range(s) == { s[k] : k \in DOMAIN s }

\* ------------------------------------------------------------------ state
VARIABLES
  tasks,               \* main.py:57  the task list
  active_connections,  \* main.py:28  ConnectionManager.active_connections
  pc,                  \* where each handler coroutine is suspended
  pass,                \* locals of each handler's current/last broadcast call
  inbox,               \* text frames delivered to each websocket's client
  response,            \* response of each REST request
  frames,              \* history: frames each /ws handler has received
  passes,              \* history: every broadcast call, in starting order
  errored,             \* history: websockets whose failed send was cleaned up
  failures,            \* history: number of sends that have failed
  appended             \* history: tasks handed to tasks.append, in call order

vars == <<tasks, active_connections, pc, pass, inbox, response,
          frames, passes, errored, failures, appended>>

NoPass ==
  [id |-> 0, message |-> <<>>, connections |-> <<>>, i |-> 0,
   disconnected |-> <<>>, attempted |-> <<>>, done |-> TRUE]

Init ==
  /\ tasks = <<>>
  /\ active_connections = <<>>
  /\ pc = [h \in Handlers |-> IF h \in WebSockets THEN "connecting" ELSE "idle"]
  /\ pass = [h \in Handlers |-> NoPass]
  /\ inbox = [w \in WebSockets |-> <<>>]
  /\ response = [r \in Requests |-> NoResponse]
  /\ frames = [w \in WebSockets |-> <<>>]
  /\ passes = <<>>
  /\ errored = {}
  /\ failures = 0
  /\ appended = <<>>

\* ----------------------------------------------------- ConnectionManager
\* list.remove: drops the first occurrence
RECURSIVE list_remove(_, _)
list_remove(l, x) ==
  IF l = <<>> THEN <<>>
  ELSE IF l[1] = x THEN Tail(l) ELSE <<l[1]>> \o list_remove(Tail(l), x)

disconnect_noop(connections, websocket) == connections

disconnect_pop(connections, websocket) ==
  IF websocket \in Range(connections)
  THEN list_remove(connections, websocket)
  ELSE SubSeq(connections, 1, Len(connections) - 1)

\* ConnectionManager.disconnect
disconnect(connections, websocket) ==
  IF websocket \in Range(connections)
  THEN list_remove(connections, websocket)
  ELSE connections

list_copy_tail(connections) ==
  IF connections = <<>> THEN <<>> ELSE Tail(connections)

\* list(self.active_connections): the copy the loop iterates
list_copy(connections) == connections

cleanup_none(connections, disconnected) == connections

\* "for websocket in disconnected: self.disconnect(websocket)"
RECURSIVE cleanup(_, _)
cleanup(connections, disconnected) ==
  IF disconnected = <<>> THEN connections
  ELSE cleanup(disconnect(connections, disconnected[1]), Tail(disconnected))

registry_after_eager(connections, disconnected, finished) ==
  cleanup(connections, disconnected)

\* the cleanup loop stands after the send loop: it runs once the loop ended
registry_after(connections, disconnected, finished) ==
  IF finished THEN cleanup(connections, disconnected) ELSE connections

send_ok_marks(pa, connection) ==
  [pa EXCEPT !.i = @ + 1,
             !.attempted = Append(@, connection),
             !.disconnected = Append(@, connection)]

\* send_text returned: next iteration
send_ok(pa, connection) ==
  [pa EXCEPT !.i = @ + 1, !.attempted = Append(@, connection)]

send_failed_break(pa, connection) ==
  [pa EXCEPT !.i = Len(pa.connections),
             !.attempted = Append(@, connection),
             !.disconnected = Append(@, connection)]

\* send_text raised WebSocketDisconnect: remember the connection, go on
send_failed(pa, connection) ==
  [pa EXCEPT !.i = @ + 1,
             !.attempted = Append(@, connection),
             !.disconnected = Append(@, connection)]

After_resume(at) ==
  CASE at = "ws_broadcast" -> "open"
    [] at = "ws_closing" -> "open"
    [] at = "post_broadcast" -> "done"

\* where a handler continues when its broadcast call returns
After(at) ==
  CASE at = "ws_broadcast" -> "open"
    [] at = "ws_closing" -> "closed"
    [] at = "post_broadcast" -> "done"

Broadcasting == {"ws_broadcast", "ws_closing", "post_broadcast"}

\* broadcast up to its first await: copy the list, enter the loop; with
\* nobody registered the call returns at once
broadcast(h, message, registry, during, taskIndex) ==
  LET snap == list_copy(registry)
      id == Len(passes) + 1
  IN /\ passes' = Append(passes,
           [by |-> h, message |-> message, registered |-> registry,
            taskIndex |-> taskIndex,
            frameNo |-> IF h \in WebSockets THEN Len(frames'[h]) ELSE 0,
            closing |-> during = "ws_closing",
            running |-> { pass[g].id : g \in { x \in Handlers : ~pass[x].done } }])
     /\ pass' = [pass EXCEPT ![h] =
           [id |-> id, message |-> message, connections |-> snap, i |-> 0,
            disconnected |-> <<>>, attempted |-> <<>>, done |-> snap = <<>>]]
     /\ active_connections' = registry
     /\ pc' = [pc EXCEPT ![h] = IF snap = <<>> THEN After(during) ELSE during]
     /\ UNCHANGED <<inbox, errored, failures>>

\* one iteration of the loop: the awaited send_text completes (ok) or raises
\* WebSocketDisconnect; after the last one the cleanup loop runs and the
\* call returns to the handler
send_text(h, ok) ==
  /\ pc[h] \in Broadcasting
  /\ ok \/ failures < MaxSendFailures
  /\ failures' = IF ok THEN failures ELSE failures + 1
  /\ LET pa == pass[h]
         connection == pa.connections[pa.i + 1]
         pb == IF ok THEN send_ok(pa, connection) ELSE send_failed(pa, connection)
         finished == pb.i >= Len(pb.connections)
     IN /\ inbox' = IF ok
                    THEN [inbox EXCEPT ![connection] =
                            Append(@, [message |-> pa.message, pass |-> pa.id])]
                    ELSE inbox
        /\ pass' = [pass EXCEPT ![h] = [pb EXCEPT !.done = finished]]
        /\ active_connections' =
             registry_after(active_connections, pb.disconnected, finished)
        /\ errored' = IF finished THEN errored \cup Range(pb.disconnected)
                      ELSE errored
        /\ pc' = [pc EXCEPT ![h] = IF finished THEN After(pc[h]) ELSE @]
        /\ response' = IF finished /\ h \in Requests
                       THEN [response EXCEPT ![h] = STATUS_TASK_ADDED]
                       ELSE response
        /\ UNCHANGED <<tasks, frames, passes, appended>>

send_text_ok(h) == send_text(h, TRUE)

send_text_disconnect(h) == send_text(h, FALSE)

RECURSIVE SumLen(_, _)
SumLen(f, S) ==
  IF S = {} THEN 0
  ELSE LET x == CHOOSE y \in S : TRUE IN Len(f[x]) + SumLen(f, S \ {x})

FramesReceived == SumLen(frames, WebSockets)

\* inputs handled so far: handshakes, frames, disconnects and REST requests
Events ==
  Cardinality({ w \in WebSockets : pc[w] # "connecting" })
  + FramesReceived
  + Cardinality({ w \in WebSockets : pc[w] \in {"ws_closing", "closed"} })
  + Cardinality({ r \in Requests : pc[r] # "idle" })

\* ------------------------------------------------------------ REST routes
\* request r reaches its route; requests are numbered in order of arrival
\* (and websockets in order of handshake)
Arrives(r) ==
  /\ pc[r] = "idle"
  /\ \A q \in Requests : q < r => pc[q] # "idle"
  /\ Events < MaxEvents

\* GET /tasks
get_tasks(r) ==
  /\ Arrives(r)
  /\ response' = [response EXCEPT ![r] = << <<"tasks", tasks>> >>]
  /\ pc' = [pc EXCEPT ![r] = "done"]
  /\ UNCHANGED <<tasks, active_connections, pass, inbox, frames, passes,
                 errored, failures, appended>>

add_task_respond_first(r, task) ==
  /\ Arrives(r)
  /\ tasks' = tasks_append(tasks, task)
  /\ appended' = Append(appended, task)
  /\ UNCHANGED frames
  /\ broadcast(r, new_task_message(task), active_connections,
               "post_broadcast", Len(tasks) + 1)
  /\ response' = [response EXCEPT ![r] = STATUS_TASK_ADDED]

\* POST /tasks
add_task(r, task) ==
  /\ Arrives(r)
  /\ tasks' = tasks_append(tasks, task)
  /\ appended' = Append(appended, task)
  /\ UNCHANGED frames
  /\ broadcast(r, new_task_message(task), active_connections,
               "post_broadcast", Len(tasks) + 1)
  /\ response' = IF pc'[r] = "done"
                 THEN [response EXCEPT ![r] = STATUS_TASK_ADDED]
                 ELSE response

\* ------------------------------------------------------------------- /ws
connect_twice(w) ==
  /\ pc[w] = "connecting"
  /\ \A v \in WebSockets : v < w => pc[v] # "connecting"
  /\ Events < MaxEvents
  /\ active_connections' = active_connections \o <<w, w>>
  /\ pc' = [pc EXCEPT ![w] = "open"]
  /\ UNCHANGED <<tasks, pass, inbox, response, frames, passes, errored,
                 failures, appended>>

\* manager.connect: accept, then append to the pool
connect(w) ==
  /\ pc[w] = "connecting"
  /\ \A v \in WebSockets : v < w => pc[v] # "connecting"
  /\ Events < MaxEvents
  /\ active_connections' = Append(active_connections, w)
  /\ pc' = [pc EXCEPT ![w] = "open"]
  /\ UNCHANGED <<tasks, pass, inbox, response, frames, passes, errored,
                 failures, appended>>

on_frame_store_all(data, store) ==
  LET content == strip(IF startswith(data, ADD_TASK)
                       THEN SubSeq(data, Len(ADD_TASK) + 1, Len(data))
                       ELSE data)
      task == << <<KEY_ID, str(Len(store))>>, <<KEY_CONTENT, content>> >>
  IN IF content # <<>>
     THEN [append |-> <<task>>, message |-> <<new_task_message(task)>>]
     ELSE [append |-> <<>>, message |-> <<>>]

on_frame_id_after(data, store) ==
  IF startswith(data, ADD_TASK)
  THEN LET content == strip(SubSeq(data, Len(ADD_TASK) + 1, Len(data)))
           task == << <<KEY_ID, str(Len(store) + 1)>>, <<KEY_CONTENT, content>> >>
       IN IF content # <<>>
          THEN [append |-> <<task>>, message |-> <<new_task_message(task)>>]
          ELSE [append |-> <<>>, message |-> <<>>]
  ELSE [append |-> <<>>, message |-> <<message_text(data)>>]

\* the body of the receive loop, main.py:89-97: what one frame appends to
\* the task list and what it broadcasts (each a list of zero or one element)
on_frame(data, store) ==
  IF startswith(data, ADD_TASK)
  THEN LET content == strip(SubSeq(data, Len(ADD_TASK) + 1, Len(data)))
           task == << <<KEY_ID, str(Len(store))>>, <<KEY_CONTENT, content>> >>
       IN IF content # <<>>
          THEN [append |-> <<task>>, message |-> <<new_task_message(task)>>]
          ELSE [append |-> <<>>, message |-> <<>>]
  ELSE [append |-> <<>>, message |-> <<message_text(data)>>]

receive_text_early(w, data) ==
  /\ pc[w] \in {"open", "ws_broadcast"}
  /\ Events < MaxEvents
  /\ frames' = [frames EXCEPT ![w] = Append(@, data)]
  /\ LET effect == on_frame(data, tasks)
     IN /\ tasks' = IF effect.append # <<>>
                   THEN tasks_append(tasks, effect.append[1])
                   ELSE tasks
        /\ appended' = appended \o effect.append
        /\ IF effect.message # <<>>
           THEN broadcast(w, effect.message[1], active_connections,
                          "ws_broadcast",
                          IF effect.append # <<>> THEN Len(tasks) + 1 ELSE 0)
           ELSE UNCHANGED <<active_connections, pc, pass, inbox, passes,
                            errored, failures>>
  /\ UNCHANGED response

\* receive_text returned a frame
receive_text(w, data) ==
  /\ pc[w] = "open"
  /\ Events < MaxEvents
  /\ frames' = [frames EXCEPT ![w] = Append(@, data)]
  /\ LET effect == on_frame(data, tasks)
     IN /\ tasks' = IF effect.append # <<>>
                   THEN tasks_append(tasks, effect.append[1])
                   ELSE tasks
        /\ appended' = appended \o effect.append
        /\ IF effect.message # <<>>
           THEN broadcast(w, effect.message[1], active_connections,
                          "ws_broadcast",
                          IF effect.append # <<>> THEN Len(tasks) + 1 ELSE 0)
           ELSE UNCHANGED <<active_connections, pc, pass, inbox, passes,
                            errored, failures>>
  /\ UNCHANGED response

\* receive_text raised WebSocketDisconnect: the except block
receive_disconnect(w) ==
  /\ pc[w] = "open"
  /\ Events < MaxEvents
  /\ UNCHANGED <<tasks, appended, frames, response>>
  /\ broadcast(w, CLIENT_DISCONNECTED, disconnect(active_connections, w),
               "ws_closing", 0)

\* ------------------------------------------------------------------ system
Next ==
  \/ \E w \in WebSockets : connect(w)
  \/ \E w \in WebSockets : \E data \in Frames : receive_text(w, data)
  \/ \E w \in WebSockets : receive_disconnect(w)
  \/ \E r \in Requests : get_tasks(r)
  \/ \E r \in Requests : \E task \in Bodies : add_task(r, task)
  \/ \E h \in Handlers : send_text_ok(h)
  \/ \E h \in Handlers : send_text_disconnect(h)

Spec == Init /\ [][Next]_vars

TypeOK ==
  /\ pc \in [Handlers -> {"connecting", "open", "closed", "idle", "done"}
                          \cup Broadcasting]
  /\ Range(active_connections) \subseteq WebSockets
  /\ errored \subseteq WebSockets
  /\ \A h \in Handlers : pass[h].i <= Len(pass[h].connections)

\* --------------------------------------------------------------- helpers of the properties
Count(s, x) == Cardinality({ k \in DOMAIN s : s[k] = x })

LastPass == passes'[Len(passes')]

\* some delivered frame of websocket w came from broadcast call id
Received(w, id) == \E k \in DOMAIN inbox[w] : inbox[w][k].pass = id

\* f is an add_task: frame with nothing but whitespace after the prefix
IsBlankCommand(f) ==
  /\ startswith(f, ADD_TASK)
  /\ \A k \in (Len(ADD_TASK) + 1)..Len(f) : f[k] \in Whitespace

\* websocket w has just received frame f
Receives(w, f) == frames'[w] = Append(frames[w], f)

\* request r has just been accepted by POST /tasks
Posts(r) ==
  /\ pc[r] = "idle" /\ pc'[r] # "idle"
  /\ \A k \in DOMAIN response'[r] : response'[r][k][1] # "tasks"

\* ---------------------------------------------------------------- C1
\* C1: after any interleaving of POST /tasks requests and non-empty
\* add_task: frames the task list holds exactly the tasks appended, one
\* entry per append, in the order the appends were executed.
C1_AppendsInCallOrder ==
  /\ Len(tasks) = Len(appended)
  /\ \A k \in DOMAIN appended : tasks[k] = appended[k]

C1_Witness ==
  /\ Len(tasks) >= 2
  /\ \E a, b \in DOMAIN passes :
       /\ passes[a].by \in Requests /\ passes[a].taskIndex > 0
       /\ passes[b].by \in WebSockets /\ passes[b].taskIndex > 0

\* ---------------------------------------------------------------- C2
\* C2: every append (POST /tasks or non-empty add_task: frame) starts exactly
\* one broadcast call, of the new_task: message of the appended task, and a
\* new_task: broadcast starts only that way; the call attempts one send, and
\* only one, to every connection registered when it started.
C2_Step ==
  /\ \A r \in Requests :
       Posts(r) => Len(tasks') = Len(tasks) + 1 /\ LastPass.by = r
  /\ \A w \in WebSockets : \A f \in Frames :
       (Receives(w, f) /\ startswith(f, ADD_TASK) /\ ~IsBlankCommand(f)) =>
         Len(tasks') = Len(tasks) + 1 /\ LastPass.by = w
  /\ Len(tasks') > Len(tasks) =>
       /\ Len(tasks') = Len(tasks) + 1
       /\ Len(passes') = Len(passes) + 1
       /\ LastPass.message = new_task_message(tasks'[Len(tasks')])
       /\ LastPass.registered = active_connections
  /\ (Len(passes') > Len(passes) /\ startswith(LastPass.message, NEW_TASK)) =>
       Len(tasks') = Len(tasks) + 1

C2_Pass ==
  \A h \in Handlers :
    pass[h].id # 0 =>
      LET registered == Range(passes[pass[h].id].registered)
      IN /\ \A c \in WebSockets \ registered : Count(pass[h].attempted, c) = 0
         /\ \A c \in registered : Count(pass[h].attempted, c) <= 1
         /\ pass[h].done =>
              \A c \in registered : Count(pass[h].attempted, c) = 1

C2_OneBroadcastToAllRegistered == [][C2_Step]_vars /\ []C2_Pass

C2_Witness ==
  \E h \in Handlers :
    /\ pass[h].id # 0 /\ pass[h].done
    /\ passes[pass[h].id].taskIndex > 0
    /\ Len(passes[pass[h].id].registered) >= 2
    /\ \A c \in Range(passes[pass[h].id].registered) : Received(c, pass[h].id)

\* ---------------------------------------------------------------- C3
\* C3: a connection whose send failed during a broadcast call is out of the
\* registry once that call has returned, stays out, and no broadcast call
\* that starts afterwards iterates over it.
C3_Inv == \A c \in errored : c \notin Range(active_connections)

C3_Step ==
  Len(passes') > Len(passes) =>
    /\ Range(LastPass.registered) \cap errored = {}
    /\ Range(pass'[LastPass.by].connections) \cap errored = {}

C3_ErroredStaysOut == []C3_Inv /\ [][C3_Step]_vars

C3_Witness ==
  \E c \in errored : \E h1, h2 \in Handlers :
    /\ pass[h1].done /\ c \in Range(pass[h1].disconnected)
    /\ pass[h2].id > pass[h1].id
    /\ pass[h2].connections # <<>>
    /\ pc[c] = "open"

\* ---------------------------------------------------------------- C4
\* C4: a failed send does not end the broadcast call and does not reach the
\* caller: the loop goes on, every connection of the call is attempted, the
\* ones whose send succeeded got the message, and the caller continues as
\* after any other broadcast (the /ws loop goes on, POST answers task_added).
C4_Inv ==
  \A h \in Handlers :
    pass[h].done =>
      /\ pass[h].attempted = pass[h].connections
      /\ \A c \in Range(pass[h].connections) \ Range(pass[h].disconnected) :
           Received(c, pass[h].id)

C4_Step ==
  \A h \in Handlers :
    (pass'[h].id = pass[h].id
       /\ Len(pass'[h].disconnected) > Len(pass[h].disconnected)) =>
      /\ pass'[h].i = pass[h].i + 1
      /\ pass'[h].done <=> pass'[h].i = Len(pass[h].connections)
      /\ pc'[h] = IF pass'[h].done THEN After(pc[h]) ELSE pc[h]
      /\ h \in Requests =>
           response'[h] = IF pass'[h].done THEN STATUS_TASK_ADDED ELSE NoResponse

C4_SendFailureSwallowed == []C4_Inv /\ [][C4_Step]_vars

C4_Witness ==
  \E h \in Handlers :
    /\ pass[h].done
    /\ Len(pass[h].connections) >= 2
    /\ pass[h].disconnected = <<pass[h].connections[1]>>
    /\ Received(pass[h].connections[2], pass[h].id)

\* ---------------------------------------------------------------- C5
\* C5: when a /ws handler leaves the receive loop on WebSocketDisconnect its
\* connection is out of the registry and exactly one "A client disconnected"
\* broadcast starts, over the connections still registered and never over
\* the closing one, whether or not a failed send had removed it before.
ClosingPasses(w) == { k \in DOMAIN passes : passes[k].by = w /\ passes[k].closing }

C5_Step ==
  \A w \in WebSockets :
    (pc[w] = "open" /\ pc'[w] \in {"ws_closing", "closed"}) =>
      /\ w \notin Range(active_connections')
      /\ Range(active_connections') = Range(active_connections) \ {w}
      /\ Len(passes') = Len(passes) + 1
      /\ LastPass.by = w
      /\ LastPass.message = CLIENT_DISCONNECTED
      /\ pass'[w].connections = active_connections'
      /\ pass'[w].message = CLIENT_DISCONNECTED

C5_Inv ==
  /\ \A w \in WebSockets :
       Cardinality(ClosingPasses(w)) = IF pc[w] \in {"ws_closing", "closed"} THEN 1 ELSE 0
  /\ \A k \in DOMAIN passes :
       passes[k].message = CLIENT_DISCONNECTED <=> passes[k].closing
  /\ \A w \in WebSockets : \A k \in ClosingPasses(w) : ~Received(w, k)

C5_DisconnectBroadcast == [][C5_Step]_vars /\ []C5_Inv

C5_Witness ==
  \E w, v \in WebSockets :
    /\ pc[w] = "closed" /\ w \in errored /\ v # w
    /\ \E k \in ClosingPasses(w) : Received(v, k)

\* ---------------------------------------------------------------- C6
\* C6: an add_task: frame with nothing, or only whitespace, after the prefix
\* changes neither the task list nor anything a broadcast would change: no
\* broadcast starts and no connection is sent a frame.
C6_Step ==
  \A w \in WebSockets : \A f \in Frames :
    (Receives(w, f) /\ IsBlankCommand(f)) =>
      UNCHANGED <<tasks, active_connections, pc, pass, inbox, passes>>

C6_BlankAddTaskIsNoOp == [][C6_Step]_vars

C6_Witness ==
  \E w \in WebSockets : \E k \in DOMAIN frames[w] :
    /\ IsBlankCommand(frames[w][k])
    /\ Len(frames[w][k]) > Len(ADD_TASK)
    /\ tasks = <<>> /\ passes = <<>>

\* ---------------------------------------------------------------- C7
\* C7 as stated: every frame that does not start with add_task: is broadcast
\* as message:<raw frame text> and the sender is among the connections the
\* broadcast sends to.
C7_OriginalStep ==
  \A w \in WebSockets : \A f \in Frames :
    (Receives(w, f) /\ ~startswith(f, ADD_TASK)) =>
      /\ Len(passes') = Len(passes) + 1
      /\ LastPass.by = w
      /\ pass'[w].message = MESSAGE \o f
      /\ w \in Range(pass'[w].connections)

C7_SenderAlwaysIncluded == [][C7_OriginalStep]_vars

\* C7 amended: every frame that does not start with add_task: is broadcast
\* as message:<raw frame text> to the connections registered at that moment;
\* the sender is among them unless the cleanup of an earlier broadcast, in
\* which a send to it failed, has already removed it from the registry.
C7_AmendedStep ==
  \A w \in WebSockets : \A f \in Frames :
    (Receives(w, f) /\ ~startswith(f, ADD_TASK)) =>
      /\ Len(passes') = Len(passes) + 1
      /\ LastPass.by = w
      /\ pass'[w].message = MESSAGE \o f
      /\ pass'[w].connections = active_connections
      /\ w \notin errored => w \in Range(pass'[w].connections)
      /\ w \in errored => w \notin Range(pass'[w].connections)

C7_SenderIncludedWhileRegistered == [][C7_AmendedStep]_vars

C7_Witness ==
  \E w, v \in WebSockets :
    /\ v # w
    /\ pass[w].id # 0 /\ pass[w].done
    /\ startswith(pass[w].message, MESSAGE)
    /\ Received(w, pass[w].id) /\ Received(v, pass[w].id)

\* ---------------------------------------------------------------- C8
\* C8: the task list changes only in a POST /tasks step or in the step that
\* receives an add_task: frame with non-blank content; a message frame, GET
\* /tasks, connect, disconnect and every send of a broadcast leave it as is.
IsPostStep == \E r \in Requests : Posts(r)

IsAddTaskStep ==
  \E w \in WebSockets : \E f \in Frames :
    Receives(w, f) /\ startswith(f, ADD_TASK) /\ ~IsBlankCommand(f)

C8_Step == tasks' # tasks => (IsPostStep \/ IsAddTaskStep)

C8_StoreChangedOnlyByAppends == [][C8_Step]_vars

C8_Witness ==
  /\ tasks = <<>>
  /\ \E r \in Requests : response[r] = << <<"tasks", <<>>>> >>
  /\ \E w, v \in WebSockets :
       /\ pc[w] = "closed"
       /\ \E k \in DOMAIN frames[v] : ~startswith(frames[v][k], ADD_TASK)
       /\ inbox[v] # <<>>

\* ---------------------------------------------------------------- C9
\* C9: a task created by an add_task: frame has id = the decimal string of
\* its index in the task list (the number of tasks before it) and content =
\* the frame text after the prefix without its surrounding whitespace; no
\* two channel-created tasks share an id.
DecimalNumeral(n) ==
  CASE n = 0 -> <<"0">> [] n = 1 -> <<"1">> [] n = 2 -> <<"2">>
    [] n = 3 -> <<"3">> [] n = 4 -> <<"4">> [] n = 5 -> <<"5">>
    [] n = 6 -> <<"6">> [] n = 7 -> <<"7">> [] n = 8 -> <<"8">>
    [] n = 9 -> <<"9">>

\* t is s without its leading and trailing whitespace
IsTrimOf(t, s) ==
  /\ t # <<>> => t[1] \notin Whitespace /\ t[Len(t)] \notin Whitespace
  /\ \E a \in 0..Len(s) :
       /\ a + Len(t) <= Len(s)
       /\ SubSeq(s, a + 1, a + Len(t)) = t
       /\ \A k \in 1..a : s[k] \in Whitespace
       /\ \A k \in (a + Len(t) + 1)..Len(s) : s[k] \in Whitespace

ChannelPasses == { k \in DOMAIN passes : passes[k].by \in WebSockets /\ passes[k].taskIndex > 0 }

C9_ChannelTaskIdIsIndex ==
  /\ \A k \in ChannelPasses :
       LET n == passes[k].taskIndex
           f == frames[passes[k].by][passes[k].frameNo]
       IN /\ n \in DOMAIN tasks
          /\ tasks[n] = << <<KEY_ID, DecimalNumeral(n - 1)>>,
                           <<KEY_CONTENT, tasks[n][2][2]>> >>
          /\ IsTrimOf(tasks[n][2][2], SubSeq(f, Len(ADD_TASK) + 1, Len(f)))
          /\ tasks[n][2][2] # <<>>
  /\ \A j, k \in ChannelPasses :
       j # k => tasks[passes[j].taskIndex][1][2] # tasks[passes[k].taskIndex][1][2]

C9_Witness ==
  /\ Len(tasks) = 2
  /\ \E k \in ChannelPasses : passes[k].taskIndex = 2
  /\ tasks[2][1][2] = <<"1">>
  /\ \E r \in Requests : pc[r] = "post_broadcast"

\* ---------------------------------------------------------------- C10
\* C10: POST /tasks appends, then broadcasts, then responds: whenever a send
\* of its broadcast happens the task is already in the task list, and the
\* task_added response exists only once the broadcast call has returned.
C10_Inv ==
  \A r \in Requests :
    /\ pc[r] = "post_broadcast" =>
         /\ response[r] = NoResponse
         /\ ~pass[r].done
    /\ response[r] = STATUS_TASK_ADDED =>
         /\ pc[r] = "done"
         /\ pass[r].id # 0 /\ pass[r].done
         /\ pass[r].attempted = passes[pass[r].id].registered
    /\ pass[r].id # 0 =>
         /\ passes[pass[r].id].taskIndex \in DOMAIN tasks
         /\ pass[r].message = new_task_message(tasks[passes[pass[r].id].taskIndex])

C10_Step ==
  \A r \in Requests :
    pass'[r].attempted # pass[r].attempted =>
      /\ pass[r].id # 0
      /\ passes[pass[r].id].taskIndex \in DOMAIN tasks
      /\ pass[r].message = new_task_message(tasks[passes[pass[r].id].taskIndex])
      /\ response[r] = NoResponse

C10_AppendBroadcastRespond == []C10_Inv /\ [][C10_Step]_vars

C10_Witness ==
  \E r \in Requests :
    /\ response[r] = STATUS_TASK_ADDED
    /\ Len(pass[r].attempted) >= 2
    /\ \E w \in WebSockets : Received(w, pass[r].id)

\* ---------------------------------------------------------------- C11
\* C11: disconnect of a connection that is not in the registry leaves the
\* registry as it is, and removing the same connection a second time (by a
\* broadcast's cleanup and by the handler's except block, in either order)
\* changes nothing more: teardown of a connection the cleanup has removed
\* keeps the registry and goes on to the disconnect broadcast, and a cleanup
\* takes out exactly the members of its list that are still registered.
Closed == {"ws_closing", "closed"}

\* broadcast call of h has just run its cleanup loop
Finishes(h) == pass'[h].id = pass[h].id /\ ~pass[h].done /\ pass'[h].done

\* l without the elements of S, order kept
RECURSIVE Without(_, _)
Without(l, S) ==
  IF l = <<>> THEN <<>>
  ELSE (IF l[1] \in S THEN <<>> ELSE <<l[1]>>) \o Without(Tail(l), S)

C11_Inv ==
  \A w \in WebSockets :
    /\ w \notin Range(active_connections) =>
         disconnect(active_connections, w) = active_connections
    /\ disconnect(disconnect(active_connections, w), w)
         = disconnect(active_connections, w)
    /\ w \notin Range(disconnect(active_connections, w))

C11_Step ==
  /\ \A w \in WebSockets :
       (pc[w] = "open" /\ pc'[w] \in Closed /\ w \notin Range(active_connections)) =>
         active_connections' = active_connections
  /\ \A h \in Handlers :
       Finishes(h) =>
         /\ active_connections' =
              Without(active_connections, Range(pass'[h].disconnected))
         /\ pc'[h] = After(pc[h])

C11_UnregisterAbsentIsNoOp == []C11_Inv /\ [][C11_Step]_vars

C11_Witness ==
  \E w \in WebSockets : \E h \in Handlers :
    /\ pc[w] \in Closed /\ w \in errored
    /\ pass[h].done /\ w \in Range(pass[h].disconnected)
    /\ h # w

\* ---------------------------------------------------------------- C12
\* C12: a broadcast call only records the connections whose send failed
\* while its loop runs and removes them after its last send attempt: a step
\* of the call that is not its last leaves the registry unchanged.
C12_Step ==
  \A h \in Handlers :
    (pass'[h].id = pass[h].id /\ pass'[h].attempted # pass[h].attempted) =>
      /\ Len(pass'[h].attempted) = Len(pass[h].attempted) + 1
      /\ Len(pass'[h].attempted) < Len(pass[h].connections) =>
           /\ active_connections' = active_connections
           /\ ~pass'[h].done
      /\ Len(pass'[h].attempted) = Len(pass[h].connections) =>
           /\ pass'[h].done
           /\ Range(active_connections') =
                Range(active_connections) \ Range(pass'[h].disconnected)

C12_Inv ==
  \A h \in Handlers :
    ~pass[h].done =>
      \A c \in Range(pass[h].disconnected) :
        c \in Range(active_connections) \/ pc[c] \in Closed \/ c \in errored

C12_CleanupAfterLastSend == [][C12_Step]_vars /\ []C12_Inv

C12_Witness ==
  \E h \in Handlers :
    /\ ~pass[h].done
    /\ pass[h].disconnected # <<>>
    /\ \A c \in Range(pass[h].disconnected) : c \in Range(active_connections)

\* ---------------------------------------------------------------- C13
\* C13: the registry changes only by connect and disconnect: a connection
\* enters it only in its own handler's handshake step; it leaves it only in
\* its own handler's except block or in the cleanup of a broadcast call in
\* which the send to it failed; REST requests, frames and broadcast calls
\* whose sends all succeed leave the registry unchanged.
\* connections the call of h attempted without delivering its message
FailedIn(h) ==
  { c \in Range(pass'[h].attempted) :
      \A k \in DOMAIN inbox'[c] : inbox'[c][k].pass # pass[h].id }

Handshakes(w) == pc[w] = "connecting" /\ pc'[w] = "open"

TearsDown(w) == pc[w] = "open" /\ pc'[w] \in Closed

C13_Step ==
  /\ active_connections' # active_connections =>
       \/ \E w \in WebSockets :
            Handshakes(w) /\ active_connections' = Append(active_connections, w)
       \/ \E w \in WebSockets :
            TearsDown(w) /\ active_connections' = Without(active_connections, {w})
       \/ \E h \in Handlers :
            /\ Finishes(h)
            /\ active_connections' = Without(active_connections, FailedIn(h))
  /\ \A w \in WebSockets :
       (w \notin Range(active_connections) /\ w \in Range(active_connections')) =>
         Handshakes(w)
  /\ \A r \in Requests :
       (pc[r] = "idle" /\ pc'[r] # "idle") => active_connections' = active_connections
  /\ \A w \in WebSockets : \A f \in Frames :
       Receives(w, f) => active_connections' = active_connections
  /\ \A h \in Handlers :
       (Finishes(h) /\ FailedIn(h) = {}) => active_connections' = active_connections

C13_RegistryChangesOnlyByConnectDisconnect == [][C13_Step]_vars

C13_Witness ==
  \E h \in Handlers :
    /\ pass[h].id # 0 /\ pass[h].done
    /\ Len(pass[h].attempted) >= 2
    /\ pass[h].disconnected = <<>>
    /\ active_connections = pass[h].connections

\* ---------------------------------------------------------------- C14
\* C14: a /ws handler goes CONNECTING -> OPEN -> CLOSED and no other way;
\* its connection is not in the registry while it is CONNECTING, and never
\* again once it is CLOSED.
Phase(at) ==
  CASE at = "connecting" -> "CONNECTING"
    [] at \in {"open", "ws_broadcast"} -> "OPEN"
    [] at \in Closed -> "CLOSED"

C14_Step ==
  \A w \in WebSockets :
    Phase(pc'[w]) # Phase(pc[w]) =>
      \/ Phase(pc[w]) = "CONNECTING" /\ Phase(pc'[w]) = "OPEN"
      \/ Phase(pc[w]) = "OPEN" /\ Phase(pc'[w]) = "CLOSED"

C14_Inv ==
  \A w \in WebSockets :
    /\ Phase(pc[w]) = "CONNECTING" => w \notin Range(active_connections)
    /\ Phase(pc[w]) = "CLOSED" => w \notin Range(active_connections)

C14_HandlerLifecycle == [][C14_Step]_vars /\ []C14_Inv

C14_Witness ==
  \E w \in WebSockets : \E k \in ClosingPasses(w) : \E j \in DOMAIN passes :
    /\ pc[w] = "closed"
    /\ j > k /\ passes[j].registered # <<>>

\* ---------------------------------------------------------------- C15
\* C15: the task list only grows at its end: every step leaves the list it
\* found as a prefix of the list it leaves.
C15_Step ==
  /\ Len(tasks') >= Len(tasks)
  /\ SubSeq(tasks', 1, Len(tasks)) = tasks

C15_StoreAppendOnly == [][C15_Step]_vars

C15_Witness ==
  /\ Len(tasks) >= 2
  /\ tasks[1] # tasks[2]

\* ---------------------------------------------------------------- C16
\* websockets taken out of the registry, by their handler or by a cleanup
Unregistered == { w \in WebSockets : pc[w] \in Closed } \cup errored

\* the broadcast call of h has just attempted a send to c
Attempts(h, c) ==
  /\ pass'[h].id = pass[h].id
  /\ pass'[h].attempted = Append(pass[h].attempted, c)

\* C16 as stated: once a connection has been unregistered no broadcast call
\* attempts a send to it, the calls in progress at that moment included.
C16_OriginalStep ==
  \A h \in Handlers : \A c \in WebSockets :
    Attempts(h, c) => c \notin Unregistered

C16_NoSendAfterUnregister == [][C16_OriginalStep]_vars

\* C16 amended: once a connection has been unregistered no broadcast call
\* that starts afterwards attempts a send to it; a call already in progress
\* sends to the connections that were registered when it started, so it
\* still attempts its send to a connection unregistered in the meantime.
C16_AmendedStep ==
  /\ \A h \in Handlers : \A c \in WebSockets :
       Attempts(h, c) => c \in Range(passes[pass[h].id].registered)
  /\ Len(passes') > Len(passes) =>
       /\ Range(LastPass.registered) \cap Unregistered' = {}
       /\ Range(pass'[LastPass.by].connections) \cap Unregistered' = {}

C16_Inv ==
  /\ Unregistered \cap Range(active_connections) = {}
  /\ \A h \in Handlers :
       pass[h].id # 0 =>
         /\ pass[h].connections = passes[pass[h].id].registered
         /\ pass[h].attempted = SubSeq(pass[h].connections, 1, pass[h].i)

C16_NoSendByLaterBroadcasts == [][C16_AmendedStep]_vars /\ []C16_Inv

C16_Witness ==
  \E h \in Handlers : \E c \in WebSockets : \E k \in ClosingPasses(c) :
    /\ pass[h].id # 0 /\ pass[h].done
    /\ pass[h].connections = <<c>> /\ pass[h].attempted = <<c>>
    /\ pass[h].id \in passes[k].running
    /\ c \notin Range(passes[k].registered)

\* ---------------------------------------------------------------- C17
TaskPasses == { k \in DOMAIN passes : passes[k].taskIndex > 0 }

\* C17 as stated: a connection that receives the new_task: messages of two
\* tasks receives them in the order of the tasks in the task list, under
\* any interleaving of broadcast calls.
C17_NewTaskInStoreOrder ==
  \A w \in WebSockets : \A i, j \in DOMAIN inbox[w] :
    (i < j /\ inbox[w][i].pass \in TaskPasses /\ inbox[w][j].pass \in TaskPasses) =>
      passes[inbox[w][i].pass].taskIndex < passes[inbox[w][j].pass].taskIndex

\* C17 amended: if task A precedes task B in the task list and the broadcast
\* call of A had returned before that of B started, a connection that
\* receives both new_task: messages receives A's first; when the two calls
\* overlap the connection may receive B's first.
C17_NewTaskInStoreOrderUnlessOverlapping ==
  /\ \A k \in TaskPasses :
       /\ passes[k].taskIndex \in DOMAIN tasks
       /\ passes[k].message = new_task_message(tasks[passes[k].taskIndex])
       /\ \A j \in TaskPasses : j < k <=> passes[j].taskIndex < passes[k].taskIndex
  /\ \A w \in WebSockets : \A i, j \in DOMAIN inbox[w] :
       LET b == inbox[w][i].pass
           a == inbox[w][j].pass
       IN (i < j /\ a \in TaskPasses /\ b \in TaskPasses
             /\ a \notin passes[b].running) =>
            passes[b].taskIndex < passes[a].taskIndex

C17_Witness ==
  \E w \in WebSockets : \E i, j \in DOMAIN inbox[w] :
    LET a == inbox[w][i].pass
        b == inbox[w][j].pass
    IN /\ i < j /\ a \in TaskPasses /\ b \in TaskPasses
       /\ passes[a].by # passes[b].by
       /\ a \notin passes[b].running
       /\ tasks[passes[a].taskIndex] # tasks[passes[b].taskIndex]

\* ---------------------------------------------------------------- C18
\* C18: a /ws handler receives its next frame only when the broadcast call
\* for the current frame has returned, with every connection of the call
\* attempted; so a connection that receives the messages of two frames of
\* one client receives them in the order the server received the frames.
FramePasses(w) ==
  { k \in DOMAIN passes : passes[k].by = w /\ ~passes[k].closing }

C18_Inv ==
  /\ \A w \in WebSockets :
       pc[w] = "open" =>
         pass[w].done /\ pass[w].attempted = pass[w].connections
  /\ \A w, v \in WebSockets : \A i, j \in DOMAIN inbox[v] :
       (i < j /\ inbox[v][i].pass \in FramePasses(w)
              /\ inbox[v][j].pass \in FramePasses(w)) =>
         passes[inbox[v][i].pass].frameNo < passes[inbox[v][j].pass].frameNo

C18_Step ==
  \A w \in WebSockets : \A f \in Frames :
    Receives(w, f) =>
      /\ pass[w].done
      /\ pass[w].attempted = pass[w].connections

C18_FrameOrderDelivery == []C18_Inv /\ [][C18_Step]_vars

C18_Witness ==
  \E w, v \in WebSockets : \E i, j \in DOMAIN inbox[v] :
    /\ v # w /\ i < j
    /\ inbox[v][i].pass \in FramePasses(w)
    /\ inbox[v][j].pass \in FramePasses(w)
    /\ Len(frames[w]) = 2

\* ---------------------------------------------------------------- C19
\* C19: no connection is twice in active_connections; so one disconnect
\* takes it out altogether and one broadcast call sends to it at most once.
C19_RegistryIsASet ==
  \A w \in WebSockets :
    /\ Count(active_connections, w) <= 1
    /\ w \notin Range(disconnect(active_connections, w))
    /\ \A h \in Handlers :
         /\ Count(pass[h].connections, w) <= 1
         /\ Count(pass[h].attempted, w) <= 1

C19_Witness ==
  \E w \in WebSockets : \E h \in Handlers :
    /\ pc[w] = "closed"
    /\ active_connections # <<>>
    /\ pass[h].done /\ pass[h].attempted # <<>>
====
